---- MODULE Spec2Model ----
(***************************************************************************)
(* Invoice submission pipeline of the ZATCA integration:                   *)
(*   ZakatService.process_pending   (src/src/services/zakat.py)            *)
(*   ZATCAProductionService.submit_invoice (src/src/services/zatca_production.py) *)
(* over the invoices table (src/src/db/models/invoices.py), with the ORM    *)
(* session of src/src/db/session.py: flush() writes inside the session's   *)
(* transaction, commit() makes the transaction's writes durable.           *)
(***************************************************************************)
EXTENDS Integers, Sequences, FiniteSets, TLC

(* ------------------------------ bounds -------------------------------- *)

\* Number of invoices in the table.
NumInv == 2
\* Length of a short diagnostic text ("ZATCA submission failed: HTTP 400").
ShortLen == 33
\* Length of a long diagnostic text (a database error, a list of remote errors).
LongLen == 1200
\* The clock runs from 0 to MaxClock minutes.
MaxClock == 8
\* The longest validity, in minutes, the token endpoint grants (expires_in).
MaxTtl == 7
\* The longest text of an invoice field given to build_xml, in characters.
MaxText == 2
\* The most items of an invoice given to build_xml.
MaxItems == 2
\* The largest coefficient of a total given to tax_calc (in cents or in mills).
MaxTotal == 60

(* ------------------------- program constants -------------------------- *)

\* zakat.py:59, zakat.py:63: last_error = msg[:1000]
ErrCap == 1000

Invoices == 1..NumInv
\* One session per process_pending call (get_session yields a fresh session).
Workers == {1, 2}
\* The runs of the sequential specification all use one session after another.
SeqWorkers == {1}

(* ------------------------- the invoices table ------------------------- *)

PENDING == "pending"
IN_PROGRESS == "in_progress"
DONE == "done"
FAILED == "failed"
InvoiceStatus == {PENDING, IN_PROGRESS, DONE, FAILED}

\* The columns process_pending assigns.
Fields == {"status", "zatca_uuid", "zatca_xml", "zatca_xml_hash", "submitted_at", "last_error"}

\* A nullable column holding NULL.
NoUuid == "null"
NoErr == [kind |-> "null", len |-> 0]
NoXml == [form |-> "null", doc |-> <<"none", 0>>]
NoHash == [form |-> "null", doc |-> <<"none", 0>>]

\* The XML documents: the one ZakatService.build_xml makes of invoice i, and the
\* one the generator's generate_zatca_xml makes for it (another template, with a
\* fresh uuid and the time of generation).
BuiltDoc(i) == <<"build_xml", i>>
GeneratedDoc(i) == <<"generate_zatca_xml", i>>

\* base64.b64encode(xml_bytes).decode("ascii") and its inverse.
b64encode(d) == [form |-> "base64", doc |-> d]
b64decode(x) == x.doc

\* hashlib.sha256(xml_bytes).hexdigest()
sha256(d) == [form |-> "sha256", doc |-> d]

\* A variant of encrypt_xml that stores the digest of another text (the document
\* before its last field was filled in).
encrypt_xml_StaleDigest(d) ==
    [zatca_xml |-> b64encode(d), zatca_xml_hash |-> sha256(<<"draft", d[2]>>)]

\* zakat.py:106-110 and zatca_invoice_generator.py:168-173: (enc_xml, xml_hash)
encrypt_xml(d) == [zatca_xml |-> b64encode(d), zatca_xml_hash |-> sha256(d)]

\* An invoice as the importer creates it: Pending, no artifacts.
NewInvoice ==
    [status |-> PENDING, zatca_uuid |-> NoUuid, zatca_xml |-> NoXml,
     zatca_xml_hash |-> NoHash, submitted_at |-> FALSE, last_error |-> NoErr]

\* An invoice as the generator creates it: Pending, with the artifacts of the
\* generator's own document.
GeneratedInvoice(i) ==
    [NewInvoice EXCEPT
        !.zatca_xml = encrypt_xml(GeneratedDoc(i)).zatca_xml,
        !.zatca_xml_hash = encrypt_xml(GeneratedDoc(i)).zatca_xml_hash]

\* Row r with the columns of the partial row upd overwritten (an UPDATE ... SET).
Merge(r, upd) == [f \in Fields |-> IF f \in DOMAIN upd THEN upd[f] ELSE r[f]]

\* No column written.
NoWrites == [f \in {} |-> 0]

\* invoices.py:19-31, 44-47: the columns and the relationship of Invoice besides
\* the six above.
OtherColumns ==
    {"id", "invoice_number", "store_name", "store_address", "vat_number", "date",
     "total", "taxes", "seller_taxes", "net_total", "user_name", "account_id",
     "created_at", "updated_at", "items"}

\* Invoice i as the import stored it: the values of invoice i, and the time of
\* the INSERT.
Imported(i) ==
    [c \in OtherColumns |-> IF c \in {"created_at", "updated_at"} THEN "insert" ELSE i]

\* A variant of onupdate for a created_at column declared like updated_at.
onupdate_AlsoCreatedAt(r) ==
    [r EXCEPT !["updated_at"] = "update",
              !["created_at"] = "update"]

\* invoices.py:45: onupdate=datetime.utcnow: an UPDATE of the row that does not
\* set updated_at sets it to the time of the statement.
onupdate(r) == [r EXCEPT !["updated_at"] = "update"]

(* ------------------------------ state --------------------------------- *)

VARIABLES
    db,        \* the committed rows of the invoices table: the ZATCA columns
    cols,      \* the committed rows of the invoices table: the other columns
    endpoint,  \* Config.ZATCA_ENDPOINT is configured
    pc,        \* where each process_pending call stands
    limit,     \* the call's limit argument
    simulate,  \* the call's simulate argument
    batch,     \* the invoices the call selected, in the order selected
    idx,       \* position of the for loop in batch
    snap,      \* the selected rows as loaded by the SELECT
    mem,       \* the Invoice objects of the session (attribute values)
    tx,        \* columns the session's open transaction has written (flushed, uncommitted)
    active,    \* the session's transaction is usable (no failed flush)
    counts,    \* processed / success / failed
    sent,      \* invoices this call has POSTed to the remote /invoices endpoint
    wire,      \* the last request this call has POSTed there
    last,      \* what happened to the invoice the call has just finished with
    access_token,      \* ZATCAProductionService.access_token of the shared instance
    token_expires_at,  \* ZATCAProductionService.token_expires_at, in minutes
    clock,             \* datetime.utcnow(), in minutes
    apc,               \* where each caller of authenticate() stands
    aret,              \* what the caller's authenticate() returned, and whether it posted
    bx,                \* one evaluation of build_xml: the invoice and what came of it
    tc,                \* one evaluation of tax_calc: the arguments and what came of it
    tlv,               \* five values, the QR payload made of them, and its analysis
    qr,                \* one invoice_data and the QR payloads generated from it
    api,               \* the credentials a ZATCAAPIClient holds
    net                \* the client's last call, and the request ids the authority gave

\* The state of the process_pending calls and of the table.
pipeline == <<db, cols, endpoint, pc, limit, simulate, batch, idx, snap, mem, tx, active, counts, sent, wire, last>>

\* The token cache of the shared service instance and its callers.
authVars == <<access_token, token_expires_at, clock, apc, aret>>

\* What no step of process_pending touches in this model.
clientVars == <<api, net>>

aside == <<authVars, bx, tc, tlv, qr, clientVars>>

vars == <<pipeline, aside>>

(* --------------------- diagnostics and truncation --------------------- *)

\* A diagnostic text (str(e), an error message) is modelled by its length in
\* characters; kind tells a text from NULL.
Msg(len) == [kind |-> "text", len |-> len]

\* A variant of Truncate that keeps the whole text.
Truncate_WholeText(m) == m

\* msg[:1000]
Truncate(m) == [m EXCEPT !.len = IF m.len > ErrCap THEN ErrCap ELSE m.len]

(* ------------------------ the remote authority ------------------------ *)

\* HTTP status codes the /invoices endpoint answers with.
Codes == {200, 201, 202, 204, 500}
\* Response bodies: a JSON object with an invoiceUuid, with a null invoiceUuid,
\* with neither (or no JSON at all), with a non-empty errors list, or JSON that
\* is not an object.
Bodies == {"id", "null_id", "plain", "errors", "notdict"}

\* What happened to invoice inv in a call: a simulated submission, a flush that
\* raised, a session already rolled back, or the upload's outcome with its code.
Event(inv, t, code) == [inv |-> inv, t |-> t, code |-> code]
NoEvent == Event(0, "none", 0)

\* A variant of RemoteOutcomes for a client made without a timeout: a request
\* that is never answered never ends.
RemoteOutcomes_NoTimeout ==
    {[t |-> "auth_fail", code |-> 0, body |-> "plain", len |-> ShortLen]}
    \cup {[t |-> "connect_fail", code |-> 0, body |-> "plain", len |-> ShortLen]}
    \cup {[t |-> "answer", code |-> c, body |-> b, len |-> ShortLen] : c \in Codes, b \in Bodies}

\* What one upload can meet: the token exchange fails, the connection cannot be
\* made, the request is sent and no answer arrives in time, or an answer.
RemoteOutcomes ==
    {[t |-> "auth_fail", code |-> 0, body |-> "plain", len |-> ShortLen]}
    \cup {[t |-> "connect_fail", code |-> 0, body |-> "plain", len |-> ShortLen]}
    \cup {[t |-> "read_timeout", code |-> 0, body |-> "plain", len |-> ShortLen]}
    \cup {[t |-> "answer", code |-> c, body |-> b, len |-> ShortLen] : c \in Codes, b \in Bodies}

\* The request reached the /invoices endpoint.
Delivered(o) == o.t \in {"read_timeout", "answer"}

\* A variant of IsSuccessCode that accepts every 2xx status.
IsSuccessCode_Any2xx(c) == c >= 200 /\ c < 300

\* response.status_code in [200, 201, 202]
IsSuccessCode(c) == c \in {200, 201, 202}

\* ZATCAProductionService.submit_invoice with the endpoint configured: the result
\* dictionary (success, zatca_uuid, error, zatca_errors non-empty).
submit_invoice(o) ==
    IF o.t # "answer"
    THEN \* authenticate() or client.post raised: except branch, error = str(e)
         [success |-> FALSE, zatca_uuid |-> NoUuid, error |-> Msg(o.len),
          zatca_errors |-> FALSE]
    ELSE IF o.body = "notdict"
    THEN \* response_data.get raises AttributeError: except branch
         [success |-> FALSE, zatca_uuid |-> NoUuid, error |-> Msg(ShortLen),
          zatca_errors |-> FALSE]
    ELSE IF IsSuccessCode(o.code)
    THEN [success |-> TRUE,
          zatca_uuid |-> IF o.body = "id" THEN "remote"
                         ELSE IF o.body = "null_id" THEN "empty" ELSE "own",
          error |-> NoErr, zatca_errors |-> FALSE]
    ELSE [success |-> FALSE, zatca_uuid |-> NoUuid, error |-> Msg(ShortLen),
          zatca_errors |-> (o.body = "errors")]

\* A variant of decode_utf8 that decodes with errors="replace".
decode_utf8_Lossy(b) == [text |-> <<"replaced", b[2]>>]

\* bytes.decode('utf-8') and str.encode('utf-8'): the text of the bytes b, and
\* the bytes of a text.
decode_utf8(b) == [text |-> b]
encode_utf8(s) == s.text

\* str(inv.id)
UuidText(u) == [text |-> u]

\* zatca_production.py:203-209: the JSON body of POST /invoices.
payload(invoice_xml, invoice_hash, invoice_uuid) ==
    [invoiceXml |-> b64encode(encode_utf8(invoice_xml)),
     invoiceHash |-> invoice_hash,
     invoiceUuid |-> invoice_uuid]

\* zakat.py:121-125: upload_xml decodes the base64 document and hands the text,
\* the hash and the identifier to submit_invoice.
upload_request(enc_xml, xml_hash, invoice_uuid) ==
    payload(decode_utf8(b64decode(enc_xml)), xml_hash, invoice_uuid)

\* Nothing has been POSTed.
NoRequest ==
    [inv |-> 0, body |-> payload(decode_utf8(<<"none", 0>>), NoHash, UuidText(0))]

\* ZakatService.upload_xml: (ok, msg, remote_id).
upload_xml(o) ==
    LET result == submit_invoice(o) IN
    IF result.success
    THEN [ok |-> TRUE, msg |-> NoErr, remote_id |-> result.zatca_uuid]
    ELSE [ok |-> FALSE,
          msg |-> IF result.zatca_errors THEN Msg(LongLen) ELSE result.error,
          remote_id |-> NoUuid]

(* ----------------------------- the session ---------------------------- *)

Min(a, b) == IF a < b THEN a ELSE b

\* The elements of a sequence.
Range(s) == {s[k] : k \in DOMAIN s}

\* A variant of PendingIds whose WHERE clause also takes the Failed rows.
PendingIds_IncludesFailed == {i \in Invoices : db[i].status \in {PENDING, FAILED}}

\* Invoice.status == PENDING among the committed rows.
PendingIds == {i \in Invoices : db[i].status = PENDING}

\* A variant of Selections without the LIMIT.
Selections_NoLimit(lim) ==
    LET n == Cardinality(PendingIds) IN
    {s \in [1..n -> PendingIds] : \A a, b \in 1..n : a # b => s[a] # s[b]}

\* select(Invoice).where(status == PENDING).limit(limit): the statement has no
\* ORDER BY, so any limit of the pending rows, in any order, may come back.
Selections(lim) ==
    LET n == Min(lim, Cardinality(PendingIds)) IN
    {s \in [1..n -> PendingIds] : \A a, b \in 1..n : a # b => s[a] # s[b]}

\* The row as the session's transaction sees it.
Base(w, i) == Merge(snap[w][i], tx[w][i])

\* The attributes of object i that differ from what the session last wrote or
\* loaded: the columns of the UPDATE a flush emits for it.
DirtyFields(w, i) == {f \in Fields : mem[w][i][f] # Base(w, i)[f]}

\* Rows a flush of session w writes now.
DirtyRows(w) == {i \in Range(batch[w]) : DirtyFields(w, i) # {}}

\* tx after a flush: every dirty attribute of every object of the session written.
Flushed(w) ==
    [i \in Invoices |->
        [f \in (DOMAIN tx[w][i]) \cup DirtyFields(w, i) |-> mem[w][i][f]]]

\* An UPDATE waits while another open transaction holds the row's lock.
LocksFree(w) ==
    \A i \in DirtyRows(w) : \A v \in Workers \ {w} : DOMAIN tx[v][i] = {}

NoTx == [i \in Invoices |-> NoWrites]

\* The invoice the for loop is at.
Cur(w) == batch[w][idx[w]]

\* for inv in invoices: the next iteration, or the commit after the loop.
AfterInvoice(w) == IF idx[w] < Len(batch[w]) THEN "top" ELSE "commit"

\* process_pending has returned its counts, has raised, or its process has died.
Ended == {"returned", "raised", "crashed"}

Bump(c, k) == [c EXCEPT ![k] = @ + 1]

(* ---------------------- process_pending, by line ---------------------- *)

\* zakat.py:36-37: build_xml, encrypt_xml of invoice i: the base64 document and
\* the hash of that document.
Artifacts(i) == encrypt_xml(BuiltDoc(i))

\* zakat.py:39-41
MarkInProgress(r, i) ==
    [r EXCEPT !.zatca_xml = Artifacts(i).zatca_xml,
              !.zatca_xml_hash = Artifacts(i).zatca_xml_hash,
              !.status = IN_PROGRESS]

\* zakat.py:45-47 and 53-55; uuid is the identifier stored.
MarkDone(r, uuid) ==
    [r EXCEPT !.zatca_uuid = uuid, !.status = DONE, !.submitted_at = TRUE]

\* A variant of MarkFailed that also stamps the attempt's time.
MarkFailed_StampsAttempt(r, msg) ==
    [r EXCEPT !.status = FAILED, !.last_error = Truncate(msg), !.submitted_at = TRUE]

\* A variant of MarkFailed that records the text and leaves the status.
MarkFailed_KeepsStatus(r, msg) == [r EXCEPT !.last_error = Truncate(msg)]

\* A variant of MarkFailed that drops the diagnostic text.
MarkFailed_NoMessage(r, msg) == [r EXCEPT !.status = FAILED]

\* zakat.py:58-59 and 62-63
MarkFailed(r, msg) ==
    [r EXCEPT !.status = FAILED, !.last_error = Truncate(msg)]

\* zakat.py:51: upload_xml(enc_xml, xml_hash, str(inv.id)) with the enc_xml and
\* xml_hash of line 37: the request call w puts on the wire for its invoice.
Posted(w) ==
    [inv |-> Cur(w),
     body |-> upload_request(Artifacts(Cur(w)).zatca_xml, Artifacts(Cur(w)).zatca_xml_hash,
                             UuidText(cols[Cur(w)]["id"]))]

\* zakat.py:44: the branch that synthesizes the submission.
TakesSimulation(w) == simulate[w] \/ ~endpoint

\* A variant of StoredUuid that stores whatever the remote authority sent.
StoredUuid_AsReceived(remote_id) == remote_id

\* zakat.py:53: remote_id or str(uuid4())
StoredUuid(remote_id) == IF remote_id \in {NoUuid, "empty"} THEN "local" ELSE remote_id

(* ------------------------------ build_xml ----------------------------- *)

\* The characters of field texts: a plain one and the three XML treats specially.
Chars == {"a", "<", ">", "&"}

\* The texts of at most n characters.
TextsUpTo(n) == UNION {[1..k -> Chars] : k \in 0..n}

\* An attribute of the Invoice object: None, or a text.
NoneField == [none |-> TRUE, text |-> <<>>]
TextField(t) == [none |-> FALSE, text |-> t]

\* str.format of an attribute: its text, or the word None.
Format(f) == IF f.none THEN <<"N", "o", "n", "e">> ELSE f.text

\* The invoices build_xml is evaluated on.
XmlInvoices ==
    [invoice_number : {TextField(<<>>), TextField(<<"a">>)},
     store_name : {NoneField} \cup {TextField(t) : t \in TextsUpTo(MaxText)},
     vat_number : {NoneField, TextField(<<>>), TextField(<<"a">>)},
     account_id : {TextField(<<"a">>)},
     items : 0..MaxItems]

\* The document as the sequence of its markup and characters: the XML
\* declaration, the opening and closing tags the template writes, and the
\* characters written between them (white space left out).
Declaration == [k |-> "decl", n |-> "xml"]
Open(n) == [k |-> "open", n |-> n]
Shut(n) == [k |-> "close", n |-> n]
Ch(c) == [k |-> "char", n |-> c]

\* <n>{text}</n>
Elem(n, text) == <<Open(n)>> \o [j \in 1..Len(text) |-> Ch(text[j])] \o <<Shut(n)>>

\* zakat.py:72: one cac:InvoiceLine; id, quantity and price are numbers.
InvoiceLine ==
    <<Open("cac:InvoiceLine")>>
    \o Elem("cbc:ID", <<"a">>)
    \o Elem("cbc:InvoicedQuantity", <<"a">>)
    \o Elem("cbc:LineExtensionAmount", <<"a">>)
    \o <<Shut("cac:InvoiceLine")>>

\* zakat.py:70-75: "".join of the lines of the items.
RECURSIVE items_xml(_)
items_xml(n) == IF n = 0 THEN <<>> ELSE items_xml(n - 1) \o InvoiceLine

\* zakat.py:69-104: the template filled in; no attribute is checked and none is
\* escaped.  The result is the document; the call never raises on a text.
build_xml(inv) ==
    [raised |-> FALSE,
     doc |->
        <<Declaration, Open("Invoice")>>
        \o Elem("cbc:ID", Format(inv.invoice_number))
        \o Elem("cbc:UUID", <<"a">>)
        \o Elem("cbc:IssueDate", <<"a">>)
        \o Elem("cbc:TaxTotal", <<"a">>)
        \o Elem("cbc:LegalMonetaryTotal", <<"a">>)
        \o <<Open("cac:AccountingSupplierParty")>>
        \o Elem("cbc:Name", Format(inv.store_name))
        \o Elem("cbc:CompanyID", Format(inv.vat_number))
        \o <<Shut("cac:AccountingSupplierParty")>>
        \o <<Open("cac:AccountingCustomerParty")>>
        \o Elem("cbc:Name", Format(inv.account_id))
        \o <<Shut("cac:AccountingCustomerParty")>>
        \o items_xml(inv.items)
        \o <<Shut("Invoice")>>]

\* build_xml has not been called yet on the invoice.
NotBuilt == [raised |-> FALSE, doc |-> <<>>]

\* No evaluation of build_xml: no invoice object is at hand.
NoBuild ==
    [given |-> FALSE,
     inv |-> [invoice_number |-> NoneField, store_name |-> NoneField,
              vat_number |-> NoneField, account_id |-> NoneField, items |-> 0],
     called |-> FALSE, out |-> NotBuilt]

\* build_xml is called on the invoice.
BuildXml ==
    /\ bx.given
    /\ ~bx.called
    /\ bx' = [bx EXCEPT !.called = TRUE, !.out = build_xml(bx.inv)]
    /\ UNCHANGED <<pipeline, authVars, tc, tlv, qr, clientVars>>

NextXml == BuildXml

(* ------------------------------ tax_calc ------------------------------ *)

Abs(n) == IF n < 0 THEN -n ELSE n
Max(a, b) == IF a > b THEN a ELSE b

RECURSIVE Pow10(_)
Pow10(n) == IF n = 0 THEN 1 ELSE 10 * Pow10(n - 1)

\* A decimal.Decimal: the number c / 10^e, with e digits after the point.
Dec(c, e) == [c |-> c, e |-> e]

\* The same number written with e digits after the point (e >= d.e).
Rescale(d, e) == Dec(d.c * Pow10(e - d.e), e)

\* Decimal multiplication and subtraction, exact.
DMul(a, b) == Dec(a.c * b.c, a.e + b.e)
DSub(a, b) ==
    LET e == Max(a.e, b.e) IN Dec(Rescale(a, e).c - Rescale(b, e).c, e)

\* A variant of quantize that rounds toward zero (ROUND_DOWN).
quantize_RoundDown(d) ==
    IF d.e <= 2 THEN Rescale(d, 2)
    ELSE LET q == Pow10(d.e - 2)
             r == Abs(d.c) \div q
         IN  Dec(IF d.c < 0 THEN -r ELSE r, 2)

\* A variant of quantize that rounds a tie to the even neighbour
\* (ROUND_HALF_EVEN, the default of the decimal module).
quantize_HalfEven(d) ==
    IF d.e <= 2 THEN Rescale(d, 2)
    ELSE LET q == Pow10(d.e - 2)
             m == Abs(d.c)
             lo == m \div q
             r == IF 2 * (m % q) > q THEN lo + 1
                  ELSE IF 2 * (m % q) < q THEN lo
                  ELSE IF lo % 2 = 0 THEN lo ELSE lo + 1
         IN  Dec(IF d.c < 0 THEN -r ELSE r, 2)

\* d.quantize(Decimal("0.01"), rounding=ROUND_HALF_UP): two digits after the
\* point, a tie rounded away from zero.
quantize(d) ==
    IF d.e <= 2 THEN Rescale(d, 2)
    ELSE LET q == Pow10(d.e - 2)
             r == (2 * Abs(d.c) + q) \div (2 * q)
         IN  Dec(IF d.c < 0 THEN -r ELSE r, 2)

\* tax_calc.py:3-16
tax_calc(total, ratio, seller_ratio) ==
    LET tax == DMul(total, ratio)
        seller_tax == DMul(tax, seller_ratio)
        net_total == DSub(DSub(total, seller_tax), tax)
    IN  [tax |-> quantize(tax),
         seller_tax |-> quantize(seller_tax),
         net_total |-> quantize(net_total)]

\* The arguments tax_calc is evaluated on: totals in cents and in mills, rates
\* and shares with up to three digits after the point.
Totals == {Dec(c, e) : c \in 0..MaxTotal, e \in {2, 3}}
Ratios == {Dec(0, 0), Dec(5, 2), Dec(15, 2), Dec(2, 1), Dec(125, 3), Dec(1, 0)}
SellerRatios == {Dec(0, 0), Dec(15, 2), Dec(5, 1), Dec(1, 0)}

NoTaxes == [tax |-> Dec(0, 0), seller_tax |-> Dec(0, 0), net_total |-> Dec(0, 0)]

\* No evaluation of tax_calc.
NoTax ==
    [given |-> FALSE, total |-> Dec(0, 0), ratio |-> Dec(0, 0),
     seller_ratio |-> Dec(0, 0), called |-> FALSE, out |-> NoTaxes]

\* tax_calc is called on the arguments.
TaxCalc ==
    /\ tc.given
    /\ ~tc.called
    /\ tc' = [tc EXCEPT !.called = TRUE,
                        !.out = tax_calc(tc.total, tc.ratio, tc.seller_ratio)]
    /\ UNCHANGED <<pipeline, authVars, bx, tlv, qr, clientVars>>

NextTax == TaxCalc

(* ------------------------- TLV fields of the QR ------------------------ *)

\* bytes([n]) takes n in range(256).
ByteMax == 255

\* The length of value_preview before "..." is appended.
PreviewLen == 20

\* A text of n UTF-8 bytes (the letter a, n times).
Filler(n) == [j \in 1..n |-> 97]

\* The values a field is given: empty, one byte that is also a tag number, two
\* bytes, one just over the preview length, the longest a length byte can
\* count, and one byte more.
TlvValues ==
    {<<>>, <<5>>, <<97, 2>>, Filler(PreviewLen + 1), Filler(ByteMax), Filler(ByteMax + 1)}

\* A variant of encode_tlv whose length byte wraps around (len & 0xFF).
encode_tlv_WrapsLength(tag, value) ==
    [raised |-> FALSE, bytes |-> <<tag, Len(value) % (ByteMax + 1)>> \o value]

\* zatca_invoice_generator.py:196-199: tag byte, length byte, value bytes;
\* bytes([len(value_bytes)]) raises ValueError for a length above 255.
encode_tlv(tag, value) ==
    IF Len(value) > ByteMax
    THEN [raised |-> TRUE, bytes |-> <<>>]
    ELSE [raised |-> FALSE, bytes |-> <<tag, Len(value)>> \o value]

\* zatca_invoice_generator.py:187-194: the fields with tags 1..5 concatenated and
\* base64-encoded; an exception of encode_tlv leaves the call.
RECURSIVE tlv_data(_, _)
tlv_data(values, k) ==
    IF k = 0 THEN [raised |-> FALSE, bytes |-> <<>>]
    ELSE LET before == tlv_data(values, k - 1)
             field == encode_tlv(k, values[k])
         IN  IF before.raised \/ field.raised
             THEN [raised |-> TRUE, bytes |-> <<>>]
             ELSE [raised |-> FALSE, bytes |-> before.bytes \o field.bytes]

qr_payload(values) ==
    LET data == tlv_data(values, Len(values)) IN
    IF data.raised THEN [raised |-> TRUE, payload |-> b64encode(<<>>)]
    ELSE [raised |-> FALSE, payload |-> b64encode(data.bytes)]

\* value_str[:20] + "..." if len(value_str) > 20 else value_str
value_preview(value) ==
    IF Len(value) > PreviewLen
    THEN SubSeq(value, 1, PreviewLen) \o <<46, 46, 46>>
    ELSE value

\* zatca_standalone_tests.py:818-842: the loop over the bytes b from position
\* pos (counted from 0), appending to the field details found so far.
RECURSIVE field_details(_, _, _)
field_details(b, pos, found) ==
    IF ~(pos < Len(b) - 2) THEN found
    ELSE LET tag == b[pos + 1]
             length == b[pos + 2]
         IN  IF pos + 2 + length <= Len(b)
             THEN field_details(b, pos + 2 + length,
                      Append(found,
                          [tag |-> tag, length |-> length,
                           value_preview |->
                               value_preview(SubSeq(b, pos + 3, pos + 2 + length))]))
             ELSE found

\* zatca_standalone_tests.py:800-847: analyze_qr_code_data
analyze_qr_code_data(qr_data) == field_details(b64decode(qr_data), 0, <<>>)

NoPayload == [raised |-> FALSE, payload |-> b64encode(<<>>)]

\* No values at hand.
NoTlv ==
    [given |-> FALSE, values |-> <<>>, encoded |-> FALSE, out |-> NoPayload,
     analyzed |-> FALSE, fields |-> <<>>]

\* The QR payload is made of the five values.
EncodeQr ==
    /\ tlv.given
    /\ ~tlv.encoded
    /\ tlv' = [tlv EXCEPT !.encoded = TRUE, !.out = qr_payload(tlv.values)]
    /\ UNCHANGED <<pipeline, authVars, bx, tc, qr, clientVars>>

\* The payload is analyzed.
AnalyzeQr ==
    /\ tlv.encoded
    /\ ~tlv.out.raised
    /\ ~tlv.analyzed
    /\ tlv' = [tlv EXCEPT !.analyzed = TRUE,
                          !.fields = analyze_qr_code_data(tlv.out.payload)]
    /\ UNCHANGED <<pipeline, authVars, bx, tc, qr, clientVars>>

NextTlv == EncodeQr \/ AnalyzeQr

(* ------------------------- generate_zatca_qr_data ---------------------- *)

\* The calls made with one invoice_data.
MaxCalls == 2

\* The decimal digits of n as bytes.
RECURSIVE digits(_)
digits(n) == IF n < 10 THEN <<48 + n>> ELSE Append(digits(n \div 10), 48 + (n % 10))

\* str() of the float that holds the amount of c hundredths: the whole part, a
\* point, and the fraction without a trailing zero ("115.0", "17.25").
str(c) ==
    digits(c \div 100) \o <<46>> \o
        (IF c % 10 = 0 THEN digits((c % 100) \div 10)
         ELSE <<48 + ((c % 100) \div 10), 48 + (c % 10)>>)

\* strftime('%Y-%m-%dT%H:%M:%SZ') of the clock reading t: one text per second.
strftime(t) == digits(t) \o <<90>>

\* zatca_invoice_generator.py:175-194 at the clock reading now.
generate_zatca_qr_data(invoice_data, now) ==
    qr_payload(<<invoice_data.store.name, invoice_data.store.vat_number,
                 strftime(now),
                 str(invoice_data.price.net_total), str(invoice_data.price.taxes)>>)

\* The invoice_data of generate_sample_invoices.
InvoiceData ==
    {[store |-> [name |-> n, vat_number |-> <<51, 48>>],
      price |-> [taxes |-> t, net_total |-> 100 + t]] :
         n \in {<<97>>, <<97, 98>>}, t \in {0, 15, 1725}}

NoData == [store |-> [name |-> <<>>, vat_number |-> <<>>], price |-> [taxes |-> 0, net_total |-> 0]]

NoQr == [given |-> FALSE, invoice_data |-> NoData, calls |-> <<>>]

\* One call of generate_zatca_qr_data with the invoice_data at hand.
GenerateQr ==
    /\ qr.given
    /\ Len(qr.calls) < MaxCalls
    /\ qr' = [qr EXCEPT !.calls =
                  Append(@, [at |-> clock,
                             out |-> generate_zatca_qr_data(qr.invoice_data, clock)])]
    /\ UNCHANGED <<pipeline, authVars, bx, tc, tlv, clientVars>>

(* ---------------------------- ZATCAAPIClient --------------------------- *)

\* None, for an attribute that holds an optional text.
None == "None"

\* What the JSON of an answer may carry as binarySecurityToken and as requestID:
\* nothing, an empty text, or a value.
CsidValues == {None, "", "csid1", "csid2"}
RequestIds == {None, "", "req1", "req2"}

\* The truth value Python gives an optional text.
bool(v) == v \notin {None, ""}

\* zatca_api_client.py:60-62
FreshClient == [compliance_csid |-> None, production_csid |-> None, request_id |-> None]

\* What _make_request meets: an exception (no connection, timeout), or an
\* answer with a status code and a JSON object.
ApiAnswers ==
    {[raised |-> TRUE, code |-> 0, binarySecurityToken |-> None, requestID |-> None]}
    \cup {[raised |-> FALSE, code |-> c, binarySecurityToken |-> t, requestID |-> r] :
              c \in {200, 202, 400}, t \in CsidValues, r \in RequestIds}

\* One call of the client: the method, whether it sent a request, where to,
\* with which authentication-certificate header and compliance_request_id, and
\* the success it returned.
ApiCall(op, requested, url, auth_cert, request_id, success) ==
    [op |-> op, sent |-> requested, endpoint |-> url, auth_cert |-> auth_cert,
     request_id |-> request_id, success |-> success]

\* A call that returned without a request.
Refused(op) == ApiCall(op, FALSE, "", None, None, FALSE)

NoCalls == [last |-> Refused("none"), issued |-> {}]

\* zatca_api_client.py:189-235
generate_compliance_csid ==
    \E a \in ApiAnswers :
        LET ok == ~a.raised /\ a.code = 200 IN
        /\ api' = IF ok
                  THEN [api EXCEPT !.compliance_csid = a.binarySecurityToken,
                                   !.request_id = a.requestID]
                  ELSE api
        /\ net' = [last |-> ApiCall("generate_compliance_csid", TRUE, "/compliance",
                                    None, None, ok),
                   issued |-> IF ok THEN net.issued \cup {a.requestID} ELSE net.issued]
        /\ UNCHANGED <<pipeline, authVars, bx, tc, tlv, qr>>

\* A variant of production_guard that lets every call through.
production_guard_Open(c) == TRUE

\* zatca_api_client.py:249: if not self.request_id: return
production_guard(c) == bool(c.request_id)

\* zatca_api_client.py:237-296
generate_production_csid ==
    /\ IF ~production_guard(api)
       THEN /\ net' = [net EXCEPT !.last = Refused("generate_production_csid")]
            /\ api' = api
       ELSE \E a \in ApiAnswers :
            LET ok == ~a.raised /\ a.code = 200 IN
            /\ api' = IF ok THEN [api EXCEPT !.production_csid = a.binarySecurityToken]
                      ELSE api
            /\ net' = [net EXCEPT !.last =
                          ApiCall("generate_production_csid", TRUE, "/production/csids",
                                  api.compliance_csid, api.request_id, ok)]
    /\ UNCHANGED <<pipeline, authVars, bx, tc, tlv, qr>>

\* zatca_api_client.py:326: self.production_csid or self.compliance_csid
reporting_cert(c) == IF bool(c.production_csid) THEN c.production_csid ELSE c.compliance_csid

\* zatca_api_client.py:298-375
report_invoice ==
    /\ IF ~bool(reporting_cert(api))
       THEN net' = [net EXCEPT !.last = Refused("report_invoice")]
       ELSE \E a \in ApiAnswers :
            net' = [net EXCEPT !.last =
                       ApiCall("report_invoice", TRUE, "/invoices/reporting/single",
                               reporting_cert(api), None,
                               ~a.raised /\ a.code \in {200, 202})]
    /\ api' = api
    /\ UNCHANGED <<pipeline, authVars, bx, tc, tlv, qr>>

\* A variant of clearance_cert that falls back to the compliance CSID.
clearance_cert_OrCompliance(c) == reporting_cert(c)

\* zatca_api_client.py:405: auth_cert = self.production_csid
clearance_cert(c) == c.production_csid

\* zatca_api_client.py:377-456
clear_invoice ==
    /\ IF ~bool(clearance_cert(api))
       THEN net' = [net EXCEPT !.last = Refused("clear_invoice")]
       ELSE \E a \in ApiAnswers :
            net' = [net EXCEPT !.last =
                       ApiCall("clear_invoice", TRUE, "/invoices/clearance/single",
                               clearance_cert(api), None,
                               ~a.raised /\ a.code \in {200, 202})]
    /\ api' = api
    /\ UNCHANGED <<pipeline, authVars, bx, tc, tlv, qr>>

\* zatca_api_client.py:532-545: the two readiness entries.
get_api_status(c) ==
    [ready_for_reporting |-> bool(c.compliance_csid) \/ bool(c.production_csid),
     ready_for_clearance |-> bool(c.production_csid)]

\* Calls of one client in any order.
NextClient ==
    \/ generate_compliance_csid
    \/ generate_production_csid
    \/ report_invoice
    \/ clear_invoice

(* --------------------- authenticate() and its cache -------------------- *)

\* zatca_production.py:98: timedelta(minutes=5)
Margin == 5

\* The tasks that call authenticate() on the one instance get_zatca_service()
\* hands out.
AuthCallers == {1, 2}

\* access_token / token_expires_at holding None.
NoToken == "None"
NoExpiry == -1

\* Tokens the endpoint may answer with ("access_token" of the JSON body).
Tokens == {"", "t1", "t2"}

\* The result of a call: the token returned, and whether the call posted a
\* token request.
AuthResult(t, posted) == [token |-> t, posted |-> posted]
NoResult == AuthResult(NoToken, FALSE)

\* A variant of CacheValid with a margin of ten minutes.
CacheValid_WiderMargin ==
    /\ access_token \notin {NoToken, ""}
    /\ token_expires_at # NoExpiry
    /\ clock < token_expires_at - 2 * Margin

\* zatca_production.py:97-98: the condition under which the cached token is
\* returned (a None or empty token and a None expiry are falsy).
CacheValid ==
    /\ access_token \notin {NoToken, ""}
    /\ token_expires_at # NoExpiry
    /\ clock < token_expires_at - Margin

\* __init__: nothing cached; no caller has called yet.
InitAuth ==
    /\ access_token = NoToken
    /\ token_expires_at = NoExpiry
    /\ clock = 0
    /\ apc = [c \in AuthCallers |-> "idle"]
    /\ aret = [c \in AuthCallers |-> NoResult]

\* zatca_production.py:97-99: the cached token is returned.
AuthHit(c) ==
    /\ apc[c] = "idle"
    /\ CacheValid
    /\ apc' = [apc EXCEPT ![c] = "returned"]
    /\ aret' = [aret EXCEPT ![c] = AuthResult(access_token, FALSE)]
    /\ UNCHANGED <<access_token, token_expires_at, clock>>
    /\ UNCHANGED <<pipeline, bx, tc, tlv, qr, clientVars>>

\* zatca_production.py:101-105: nothing valid cached and no endpoint configured.
AuthRefuse(c) ==
    /\ apc[c] = "idle"
    /\ ~CacheValid
    /\ ~endpoint
    /\ apc' = [apc EXCEPT ![c] = "raised"]
    /\ UNCHANGED <<access_token, token_expires_at, clock, aret>>
    /\ UNCHANGED <<pipeline, bx, tc, tlv, qr, clientVars>>

\* zatca_production.py:107-124: the token request is posted and awaited.
AuthSend(c) ==
    /\ apc[c] = "idle"
    /\ ~CacheValid
    /\ endpoint
    /\ apc' = [apc EXCEPT ![c] = "awaiting"]
    /\ UNCHANGED <<access_token, token_expires_at, clock, aret>>
    /\ UNCHANGED <<pipeline, bx, tc, tlv, qr, clientVars>>

\* zatca_production.py:126-140: status 200; the token and its expiry are cached.
AuthAnswer(c) ==
    /\ apc[c] = "awaiting"
    /\ \E t \in Tokens, ttl \in 0..MaxTtl :
        /\ access_token' = t
        /\ token_expires_at' = clock + ttl
        /\ aret' = [aret EXCEPT ![c] = AuthResult(t, TRUE)]
    /\ apc' = [apc EXCEPT ![c] = "returned"]
    /\ UNCHANGED clock
    /\ UNCHANGED <<pipeline, bx, tc, tlv, qr, clientVars>>

\* zatca_production.py:141-154: another status, a timeout or an error: raised.
AuthFail(c) ==
    /\ apc[c] = "awaiting"
    /\ apc' = [apc EXCEPT ![c] = "raised"]
    /\ UNCHANGED <<access_token, token_expires_at, clock, aret>>
    /\ UNCHANGED <<pipeline, bx, tc, tlv, qr, clientVars>>

\* The caller is done with the result; it may call again.
AuthAgain(c) ==
    /\ apc[c] \in {"returned", "raised"}
    /\ apc' = [apc EXCEPT ![c] = "idle"]
    /\ aret' = [aret EXCEPT ![c] = NoResult]
    /\ UNCHANGED <<access_token, token_expires_at, clock>>
    /\ UNCHANGED <<pipeline, bx, tc, tlv, qr, clientVars>>

\* A minute passes.
Tick ==
    /\ clock < MaxClock
    /\ clock' = clock + 1
    /\ UNCHANGED <<access_token, token_expires_at, apc, aret>>
    /\ UNCHANGED <<pipeline, bx, tc, tlv, qr, clientVars>>

\* Concurrent callers of authenticate() on the shared instance.
NextAuth ==
    \/ \E c \in AuthCallers :
        \/ AuthHit(c)
        \/ AuthRefuse(c)
        \/ AuthSend(c)
        \/ AuthAnswer(c)
        \/ AuthFail(c)
        \/ AuthAgain(c)
    \/ Tick

(* ------------------------------ actions ------------------------------ *)

\* No call of process_pending has been made yet.
InitCalls ==
    /\ cols = [i \in Invoices |-> Imported(i)]
    /\ endpoint \in BOOLEAN
    /\ pc = [w \in Workers |-> "idle"]
    /\ limit = [w \in Workers |-> 0]
    /\ simulate = [w \in Workers |-> TRUE]
    /\ batch = [w \in Workers |-> <<>>]
    /\ idx = [w \in Workers |-> 1]
    /\ snap = [w \in Workers |-> [i \in Invoices |-> NewInvoice]]
    /\ mem = [w \in Workers |-> [i \in Invoices |-> NewInvoice]]
    /\ tx = [w \in Workers |-> NoTx]
    /\ active = [w \in Workers |-> TRUE]
    /\ counts = [w \in Workers |-> [processed |-> 0, success |-> 0, failed |-> 0]]
    /\ sent = [w \in Workers |-> {}]
    /\ wire = [w \in Workers |-> NoRequest]
    /\ last = [w \in Workers |-> NoEvent]

\* The table after an import.
Init ==
    /\ db = [i \in Invoices |-> NewInvoice]
    /\ InitCalls
    /\ InitAuth
    /\ bx = NoBuild
    /\ tc = NoTax
    /\ tlv = NoTlv
    /\ qr = NoQr
    /\ api = FreshClient
    /\ net = NoCalls

\* An invoice object about to be given to build_xml.
InitXml ==
    /\ db = [i \in Invoices |-> NewInvoice]
    /\ InitCalls
    /\ InitAuth
    /\ bx \in {[given |-> TRUE, inv |-> v, called |-> FALSE, out |-> NotBuilt] :
                    v \in XmlInvoices}
    /\ tc = NoTax
    /\ tlv = NoTlv
    /\ qr = NoQr
    /\ api = FreshClient
    /\ net = NoCalls

\* Arguments about to be given to tax_calc.
InitTax ==
    /\ db = [i \in Invoices |-> NewInvoice]
    /\ InitCalls
    /\ InitAuth
    /\ bx = NoBuild
    /\ tc \in {[given |-> TRUE, total |-> t, ratio |-> r, seller_ratio |-> s,
                 called |-> FALSE, out |-> NoTaxes] :
                    t \in Totals, r \in Ratios, s \in SellerRatios}
    /\ tlv = NoTlv
    /\ qr = NoQr
    /\ api = FreshClient
    /\ net = NoCalls

\* Five values about to be encoded as the fields 1..5.
InitTlv ==
    /\ db = [i \in Invoices |-> NewInvoice]
    /\ InitCalls
    /\ InitAuth
    /\ bx = NoBuild
    /\ tc = NoTax
    /\ tlv \in {[NoTlv EXCEPT !.given = TRUE, !.values = v] : v \in [1..5 -> TlvValues]}
    /\ qr = NoQr
    /\ api = FreshClient
    /\ net = NoCalls

\* An invoice_data about to be given a QR payload.
InitQr ==
    /\ db = [i \in Invoices |-> NewInvoice]
    /\ InitCalls
    /\ InitAuth
    /\ bx = NoBuild
    /\ tc = NoTax
    /\ tlv = NoTlv
    /\ qr \in {[NoQr EXCEPT !.given = TRUE, !.invoice_data = d] : d \in InvoiceData}
    /\ api = FreshClient
    /\ net = NoCalls

\* The table after an import and a run of the generator: each invoice was made
\* by one of the two.
InitGen ==
    /\ db \in [Invoices -> {NewInvoice} \cup {GeneratedInvoice(i) : i \in Invoices}]
    /\ \A i \in Invoices : db[i] \in {NewInvoice, GeneratedInvoice(i)}
    /\ InitCalls
    /\ InitAuth
    /\ bx = NoBuild
    /\ tc = NoTax
    /\ tlv = NoTlv
    /\ qr = NoQr
    /\ api = FreshClient
    /\ net = NoCalls

\* The loop moves to the next invoice, or leaves for the commit.
Advance(w) ==
    /\ pc' = [pc EXCEPT ![w] = AfterInvoice(w)]
    /\ idx' = [idx EXCEPT ![w] = IF idx[w] < Len(batch[w]) THEN idx[w] + 1 ELSE idx[w]]

\* zakat.py:19-31: a call with a fresh session selects its batch.
Start(w) ==
    /\ pc[w] = "idle"
    /\ \E lim \in 1..NumInv, sim \in BOOLEAN :
        \E b \in Selections(lim) :
            /\ limit' = [limit EXCEPT ![w] = lim]
            /\ simulate' = [simulate EXCEPT ![w] = sim]
            /\ batch' = [batch EXCEPT ![w] = b]
            /\ snap' = [snap EXCEPT ![w] =
                    [i \in Invoices |-> IF i \in Range(b) THEN db[i] ELSE NewInvoice]]
            /\ mem' = [mem EXCEPT ![w] =
                    [i \in Invoices |-> IF i \in Range(b) THEN db[i] ELSE NewInvoice]]
            /\ pc' = [pc EXCEPT ![w] = IF b = <<>> THEN "commit" ELSE "top"]
    /\ UNCHANGED <<db, cols, endpoint, idx, tx, active, counts, sent, wire, last>>
    /\ UNCHANGED aside

\* zakat.py:34-41: the artifacts and IN_PROGRESS are assigned; flush is awaited.
Prepare(w) ==
    /\ pc[w] = "top"
    /\ active[w]
    /\ mem' = [mem EXCEPT ![w][Cur(w)] = MarkInProgress(@, Cur(w))]
    /\ counts' = [counts EXCEPT ![w] = Bump(@, "processed")]
    /\ last' = [last EXCEPT ![w] = NoEvent]
    /\ pc' = [pc EXCEPT ![w] = "flush1"]
    /\ UNCHANGED <<db, cols, endpoint, limit, simulate, batch, idx, snap, tx, active, sent, wire>>
    /\ UNCHANGED aside

\* zakat.py:34-36, 61-64: after a failed flush the session's transaction is rolled
\* back and its objects are expired; reading the next invoice raises, and the
\* except branch marks it.
PrepareRaises(w) ==
    /\ pc[w] = "top"
    /\ ~active[w]
    /\ mem' = [mem EXCEPT ![w][Cur(w)] = MarkFailed(@, Msg(LongLen))]
    /\ counts' = [counts EXCEPT ![w] = Bump(Bump(@, "processed"), "failed")]
    /\ last' = [last EXCEPT ![w] = Event(Cur(w), "session_error", 0)]
    /\ Advance(w)
    /\ UNCHANGED <<db, cols, endpoint, limit, simulate, batch, snap, tx, active, sent, wire>>
    /\ UNCHANGED aside

\* A flush raises (zakat.py:42 or 48): the session rolls its transaction back and
\* expires every object; the except branch (61-64) marks the current invoice.
FlushRaises(w) ==
    /\ tx' = [tx EXCEPT ![w] = NoTx]
    /\ active' = [active EXCEPT ![w] = FALSE]
    /\ mem' = [mem EXCEPT ![w] =
            [i \in Invoices |->
                IF i = Cur(w) THEN MarkFailed(snap[w][i], Msg(LongLen))
                ELSE snap[w][i]]]
    /\ counts' = [counts EXCEPT ![w] = Bump(@, "failed")]
    /\ last' = [last EXCEPT ![w] = Event(Cur(w), "flush_error", 0)]
    /\ Advance(w)
    /\ UNCHANGED <<db, cols, endpoint, limit, simulate, batch, snap, sent, wire>>
    /\ UNCHANGED aside

\* zakat.py:42-47, 51: the flush writes the artifacts and IN_PROGRESS inside the
\* transaction; then either the simulated submission is assigned and flushed, or
\* upload_xml is awaited.
Flush1Ok(w) ==
    /\ pc[w] = "flush1"
    /\ LocksFree(w)
    /\ tx' = [tx EXCEPT ![w] = Flushed(w)]
    /\ IF TakesSimulation(w)
       THEN /\ mem' = [mem EXCEPT ![w][Cur(w)] = MarkDone(@, "local")]
            /\ last' = [last EXCEPT ![w] = Event(Cur(w), "simulated", 0)]
            /\ pc' = [pc EXCEPT ![w] = "flush2"]
       ELSE /\ pc' = [pc EXCEPT ![w] = "call"]
            /\ UNCHANGED <<mem, last>>
    /\ UNCHANGED <<db, cols, endpoint, limit, simulate, batch, idx, snap, active, counts, sent, wire>>
    /\ UNCHANGED aside

Flush1Raises(w) ==
    /\ pc[w] = "flush1"
    /\ FlushRaises(w)

\* zakat.py:48-49
Flush2Ok(w) ==
    /\ pc[w] = "flush2"
    /\ LocksFree(w)
    /\ tx' = [tx EXCEPT ![w] = Flushed(w)]
    /\ counts' = [counts EXCEPT ![w] = Bump(@, "success")]
    /\ Advance(w)
    /\ UNCHANGED <<db, cols, endpoint, limit, simulate, batch, snap, mem, active, sent, wire, last>>
    /\ UNCHANGED aside

Flush2Raises(w) ==
    /\ pc[w] = "flush2"
    /\ FlushRaises(w)

\* zakat.py:51-60: upload_xml returns and its result is recorded on the object.
UploadReturn(w) ==
    /\ pc[w] = "call"
    /\ \E o \in RemoteOutcomes :
        LET r == upload_xml(o) IN
        /\ mem' = [mem EXCEPT ![w][Cur(w)] =
                IF r.ok THEN MarkDone(@, StoredUuid(r.remote_id)) ELSE MarkFailed(@, r.msg)]
        /\ counts' = [counts EXCEPT ![w] = Bump(@, IF r.ok THEN "success" ELSE "failed")]
        /\ sent' = [sent EXCEPT ![w] = IF Delivered(o) THEN @ \cup {Cur(w)} ELSE @]
        /\ wire' = [wire EXCEPT ![w] = IF Delivered(o) THEN Posted(w) ELSE @]
        /\ last' = [last EXCEPT ![w] = Event(Cur(w), o.t, o.code)]
    /\ Advance(w)
    /\ UNCHANGED <<db, cols, endpoint, limit, simulate, batch, snap, tx, active>>
    /\ UNCHANGED aside

\* The process dies while upload_xml is awaited: the open transaction is lost.
Crash(w) ==
    /\ pc[w] = "call"
    /\ \E delivered \in BOOLEAN :
        /\ sent' = [sent EXCEPT ![w] = IF delivered THEN @ \cup {Cur(w)} ELSE @]
        /\ wire' = [wire EXCEPT ![w] = IF delivered THEN Posted(w) ELSE @]
    /\ pc' = [pc EXCEPT ![w] = "crashed"]
    /\ tx' = [tx EXCEPT ![w] = NoTx]
    /\ UNCHANGED <<db, cols, endpoint, limit, simulate, batch, idx, snap, mem, active, counts, last>>
    /\ UNCHANGED aside

\* zakat.py:66-67: the commit flushes what is still dirty and makes every write
\* of the transaction durable; the counts are returned.
CommitOk(w) ==
    /\ pc[w] = "commit"
    /\ active[w]
    /\ LocksFree(w)
    /\ db' = [i \in Invoices |-> Merge(db[i], Flushed(w)[i])]
    /\ cols' = [i \in Invoices |->
                  IF DOMAIN Flushed(w)[i] # {} THEN onupdate(cols[i]) ELSE cols[i]]
    /\ tx' = [tx EXCEPT ![w] = NoTx]
    /\ pc' = [pc EXCEPT ![w] = "returned"]
    /\ UNCHANGED <<endpoint, limit, simulate, batch, idx, snap, mem, active, counts, sent, wire, last>>
    /\ UNCHANGED aside

\* zakat.py:66: the commit raises (always, once a flush has failed): the
\* transaction is rolled back and the exception leaves process_pending.
CommitRaises(w) ==
    /\ pc[w] = "commit"
    /\ tx' = [tx EXCEPT ![w] = NoTx]
    /\ pc' = [pc EXCEPT ![w] = "raised"]
    /\ UNCHANGED <<db, cols, endpoint, limit, simulate, batch, idx, snap, mem, active, counts, sent, wire, last>>
    /\ UNCHANGED aside

\* The external operation that makes a Failed invoice eligible again: it sets
\* the row's status back to Pending.  A call never reads or writes a row that is
\* Failed when the call selects, so a reset in the middle of a call leads to the
\* same states as one before it, and so does a reset before the request of a
\* finished call is over; resets are taken between calls.
Reset(i) ==
    /\ db[i].status = FAILED
    /\ \A w \in Workers : pc[w] = "idle"
    /\ db' = [db EXCEPT ![i].status = PENDING]
    /\ cols' = [cols EXCEPT ![i] = onupdate(@)]
    /\ UNCHANGED <<endpoint, pc, limit, simulate, batch, idx, snap, mem, tx, active, counts, sent, wire, last>>
    /\ UNCHANGED aside

\* session.py:30-31: the request is over and its session is closed; the next
\* call gets a fresh one.
Close(w) ==
    /\ pc[w] \in Ended
    /\ pc' = [pc EXCEPT ![w] = "idle"]
    /\ limit' = [limit EXCEPT ![w] = 0]
    /\ simulate' = [simulate EXCEPT ![w] = TRUE]
    /\ batch' = [batch EXCEPT ![w] = <<>>]
    /\ idx' = [idx EXCEPT ![w] = 1]
    /\ snap' = [snap EXCEPT ![w] = [i \in Invoices |-> NewInvoice]]
    /\ mem' = [mem EXCEPT ![w] = [i \in Invoices |-> NewInvoice]]
    /\ tx' = [tx EXCEPT ![w] = NoTx]
    /\ active' = [active EXCEPT ![w] = TRUE]
    /\ counts' = [counts EXCEPT ![w] = [processed |-> 0, success |-> 0, failed |-> 0]]
    /\ sent' = [sent EXCEPT ![w] = {}]
    /\ wire' = [wire EXCEPT ![w] = NoRequest]
    /\ last' = [last EXCEPT ![w] = NoEvent]
    /\ UNCHANGED <<db, cols, endpoint>>
    /\ UNCHANGED aside

Run(w) ==
    \/ Prepare(w)
    \/ PrepareRaises(w)
    \/ Flush1Ok(w)
    \/ Flush1Raises(w)
    \/ Flush2Ok(w)
    \/ Flush2Raises(w)
    \/ UploadReturn(w)
    \/ CommitOk(w)
    \/ CommitRaises(w)

\* Calls of process_pending one after another, and the external reset.
Next ==
    \/ \E w \in SeqWorkers : Start(w) \/ Run(w) \/ Crash(w) \/ Close(w)
    \/ \E i \in Invoices : Reset(i)

Spec == Init /\ [][Next]_vars

\* Two calls of process_pending, each with its own session, running concurrently
\* against a healthy store: no flush or commit raises, no crash, no reset.
NextConc ==
    \E w \in Workers :
        \/ Start(w)
        \/ Prepare(w)
        \/ Flush1Ok(w)
        \/ Flush2Ok(w)
        \/ UploadReturn(w)
        \/ CommitOk(w)

SpecConc == Init /\ [][NextConc]_vars

\* Calls of process_pending one after another over imported and generated
\* invoices.
NextGen ==
    \E w \in SeqWorkers : Start(w) \/ Run(w) \/ Crash(w) \/ Close(w)

SpecGen == InitGen /\ [][NextGen]_vars

\* zatca_production.py:82, 90: httpx.AsyncClient(timeout=30.0): the request that
\* is not answered within the timeout raises in the client, and upload_xml
\* returns its failure.
ClientGivesUp(w) ==
    /\ UploadReturn(w)
    /\ last'[w].t = "read_timeout"

\* The steps process_pending takes by itself against a healthy store.
LocalStep(w) == Prepare(w) \/ Flush1Ok(w) \/ Flush2Ok(w) \/ CommitOk(w)

\* Calls of process_pending one after another against a healthy store.
NextLive ==
    \E w \in SeqWorkers :
        \/ Start(w)
        \/ Prepare(w)
        \/ Flush1Ok(w)
        \/ Flush2Ok(w)
        \/ UploadReturn(w)
        \/ CommitOk(w)
        \/ Close(w)

\* The event loop keeps running a call that can go on, and the client's timeout
\* expires; nothing makes the remote authority answer.
SpecLive ==
    /\ Init
    /\ [][NextLive]_vars
    /\ \A w \in SeqWorkers : WF_vars(LocalStep(w)) /\ WF_vars(ClientGivesUp(w))

SpecAuth == Init /\ [][NextAuth]_vars

SpecXml == InitXml /\ [][NextXml]_vars

SpecTax == InitTax /\ [][NextTax]_vars

SpecTlv == InitTlv /\ [][NextTlv]_vars

\* Calls of generate_zatca_qr_data while the clock runs.
NextQr == GenerateQr \/ Tick

SpecQr == InitQr /\ [][NextQr]_vars

SpecClient == Init /\ [][NextClient]_vars

(* ------------------------------- claims ------------------------------ *)

\* The positions inside the for loop.
InLoop == {"top", "flush1", "flush2", "call"}

\* C1: in live mode, when the remote submission call for an invoice starts, the
\* committed row of that invoice already has status InProgress together with
\* its zatca_xml and zatca_xml_hash.
C1_InProgressDurableBeforeCall ==
    \A w \in Workers :
        pc[w] = "call" =>
            /\ db[Cur(w)].status = IN_PROGRESS
            /\ db[Cur(w)].zatca_xml # NoXml
            /\ db[Cur(w)].zatca_xml_hash # NoHash

\* C2: with two concurrent calls, no invoice is submitted to the remote
\* authority by both.
C2_NoDoubleSubmission ==
    \A i \in Invoices : \A v, w \in Workers :
        v # w => ~(i \in sent[v] /\ i \in sent[w])

\* The status changes the state machine allows.
AllowedStatusChanges ==
    {<<PENDING, IN_PROGRESS>>, <<IN_PROGRESS, DONE>>, <<IN_PROGRESS, FAILED>>}

\* C3: every change process_pending makes to the status of the invoice it is
\* processing follows Pending -> InProgress -> {Done | Failed}.
C3_StatusOrder ==
    [][\A w \in Workers :
         (pc[w] \in InLoop) =>
             \/ mem'[w][Cur(w)].status = mem[w][Cur(w)].status
             \/ <<mem[w][Cur(w)].status, mem'[w][Cur(w)].status>> \in AllowedStatusChanges]_vars

\* C4: when the processing of one invoice raises (here: its flush), the call
\* still processes the other invoices on their own and returns its counts: it
\* does not end by raising, and no other invoice fails because of the session.
C4_PerInvoiceIsolation ==
    \A w \in Workers :
        ~active[w] => (pc[w] # "raised" /\ last[w].t # "session_error")

\* C5: when a flush fails while invoice N is processed, the Done outcomes the
\* call recorded before (counted in success) are in the committed rows when the
\* call has ended.
C5_EarlierOutcomeKept ==
    \A w \in Workers :
        (pc[w] \in {"returned", "raised"} /\ ~active[w]) =>
            Cardinality({i \in Range(batch[w]) : db[i].status = DONE}) >= counts[w].success

\* C6: in every state reached by calls run one after another, a committed row
\* with submitted_at set has status Done.
C6_SubmittedImpliesDone ==
    \A i \in Invoices : db[i].submitted_at => db[i].status = DONE

\* A row with submitted_at exists after a call in which a flush raised has ended.
C6_Witness ==
    /\ \E i \in Invoices : db[i].submitted_at
    /\ \E w \in Workers : pc[w] = "raised" /\ ~active[w] /\ TakesSimulation(w)

\* C7: a Done invoice has last_error unset, also after a Failed invoice was
\* reset to Pending and processed again.
C7_DoneHasNoError ==
    \A i \in Invoices : db[i].status = DONE => db[i].last_error = NoErr

\* Failed with last_error set and zatca_uuid, submitted_at unset.
FailedShape(r) ==
    r.status = FAILED =>
        (r.last_error # NoErr /\ r.zatca_uuid = NoUuid /\ ~r.submitted_at)

\* C8: an invoice whose processing ended in Failed has last_error set and
\* zatca_uuid, submitted_at unset, in the committed rows and on the objects of
\* the call that processed it.
C8_FailedHasErrorOnly ==
    /\ \A i \in Invoices : FailedShape(db[i])
    /\ \A w \in Workers : \A i \in Range(batch[w]) : FailedShape(mem[w][i])

\* A rejected upload has been committed as Failed, and a flush of a simulated
\* submission has raised in a later call.
C8_Witness ==
    /\ \E i \in Invoices : db[i].status = FAILED
    /\ \E w \in Workers :
        /\ last[w].t = "flush_error"
        /\ TakesSimulation(w)
        /\ mem[w][last[w].inv].status = FAILED

\* C9: a call with simulate=false marks an invoice Done only after its document
\* was sent to the remote authority.
C9_ExplicitSimulation ==
    \A w \in Workers : \A i \in Range(batch[w]) :
        (~simulate[w] /\ mem[w][i].status = DONE) => i \in sent[w]

\* The statuses the claim counts as success.
SuccessStatuses == {200, 201, 202}

\* The upload of the invoice met a failure: no answer, or an answer whose status
\* is not a success status.
UploadFailed(e) ==
    \/ e.t \in {"auth_fail", "connect_fail", "read_timeout"}
    \/ (e.t = "answer" /\ e.code \notin SuccessStatuses)

\* C10: the invoice processed last is Done only if its submission was simulated
\* or answered with 200/201/202; after any failure of its upload it is Failed
\* with a diagnostic text of at most ErrCap characters in last_error; and the
\* committed row agrees once the call has returned.
C10_DoneOnlyOnSuccess ==
    \A w \in Workers :
        last[w].inv # 0 =>
            LET m == mem[w][last[w].inv]
                r == db[last[w].inv]
            IN  /\ m.status = DONE =>
                      \/ last[w].t = "simulated"
                      \/ (last[w].t = "answer" /\ last[w].code \in SuccessStatuses)
                /\ UploadFailed(last[w]) =>
                      /\ m.status = FAILED
                      /\ m.last_error # NoErr
                      /\ m.last_error.len <= ErrCap
                /\ pc[w] = "returned" =>
                      /\ (r.status = DONE) = (m.status = DONE)
                      /\ m.status = FAILED => r.last_error = m.last_error

\* An upload answered with status 500 has been committed as Failed, after an
\* upload answered with a success status was committed as Done.
C10_Witness ==
    \E w \in Workers :
        /\ pc[w] = "returned"
        /\ last[w].t = "answer"
        /\ last[w].code = 500
        /\ db[last[w].inv].status = FAILED
        /\ \E j \in Invoices : db[j].status = DONE /\ db[j].zatca_uuid = "remote"

\* C11: process_pending selects only rows that are Pending, sends only documents
\* of rows that are Pending in the table, and a step changes a row that is Done
\* or Failed in no field, except for the external reset of its status to Pending.
C11_SettledUntouched ==
    [][\A i \in Invoices :
         /\ db[i].status \in {DONE, FAILED} =>
               \/ db'[i] = db[i]
               \/ db'[i] = [db[i] EXCEPT !.status = PENDING]
         /\ \A w \in Workers :
               /\ i \in Range(batch'[w]) => snap'[w][i].status = PENDING
               /\ (i \in sent'[w] /\ i \notin sent[w]) => db[i].status = PENDING]_vars

\* A call whose limit would have admitted more invoices has returned after
\* processing one, and an invoice it did not select is Done or Failed.
C11_Witness ==
    \E w \in Workers :
        /\ pc[w] = "returned"
        /\ counts[w].processed >= 1
        /\ Len(batch[w]) < limit[w]
        /\ \E i \in Invoices \ Range(batch[w]) : db[i].status \in {DONE, FAILED}

\* C12: when a call has selected its batch, the batch is in creation order
\* (invoices are numbered in the order created) and every Pending invoice left
\* out is newer than every invoice selected.
C12_OldestFirst ==
    \A w \in Workers :
        (pc[w] = "top" /\ idx[w] = 1) =>
            /\ \A a, b \in 1..Len(batch[w]) : a < b => batch[w][a] < batch[w][b]
            /\ \A i \in Range(batch[w]) : \A j \in PendingIds \ Range(batch[w]) : i < j

\* C13: the commit of a call changes at most limit rows, all of them selected by
\* the call and Pending when selected; no other step of a call changes a row;
\* and the processed count is at most limit and at most the number of Pending
\* rows.
C13_AtMostLimit ==
    [][\A w \in SeqWorkers :
         LET changed == {i \in Invoices : db'[i] # db[i]} IN
         /\ (pc[w] = "commit" /\ pc'[w] = "returned") =>
               /\ Cardinality(changed) <= limit[w]
               /\ \A i \in changed :
                     i \in Range(batch[w]) /\ snap[w][i].status = PENDING
               /\ counts'[w].processed <= limit[w]
               /\ counts'[w].processed <= Cardinality(PendingIds)
         /\ (pc[w] \in InLoop \cup {"commit"} /\ pc'[w] # "returned") => changed = {}]_vars

\* A call with a limit below the number of Pending rows has returned after
\* processing exactly limit of them.
C13_Witness ==
    \E w \in Workers :
        /\ pc[w] = "returned"
        /\ counts[w].processed = limit[w]
        /\ PendingIds # {}
        /\ \A i \in Range(batch[w]) : db[i].status \in {DONE, FAILED}

\* zatca_xml and zatca_xml_hash are both NULL, or the hash is the SHA-256 of the
\* document zatca_xml encodes.
ArtifactsAgree(r) ==
    /\ (r.zatca_xml = NoXml) = (r.zatca_xml_hash = NoHash)
    /\ r.zatca_xml # NoXml =>
          /\ r.zatca_xml.form = "base64"
          /\ r.zatca_xml_hash = [form |-> "sha256", doc |-> b64decode(r.zatca_xml)]

\* C14: every committed row, and every row as a session's transaction sees it,
\* has its zatca_xml and zatca_xml_hash in agreement.
C14_XmlAndHashAgree ==
    /\ \A i \in Invoices : ArtifactsAgree(db[i])
    /\ \A w \in Workers : \A i \in Range(batch[w]) : ArtifactsAgree(Base(w, i))

\* An invoice made by the generator has been processed and committed with the
\* artifacts of the rebuilt document, while an imported one has none yet.
C14_Witness ==
    /\ \E w \in Workers : \E i \in Range(batch[w]) :
          /\ pc[w] = "returned"
          /\ snap[w][i] = GeneratedInvoice(i)
          /\ db[i].status = DONE
          /\ db[i].zatca_xml = b64encode(BuiltDoc(i))
    /\ \E j \in Invoices : db[j] = NewInvoice

\* Minutes of validity left on the cached token.
Remaining == token_expires_at - clock

\* A token is cached.
TokenCached == access_token \notin {NoToken, ""} /\ token_expires_at # NoExpiry

\* C15 as stated: a call of authenticate() posts a token request only when no
\* token is cached or fewer than 5 minutes of validity remain.
C15_ContactOnlyBelowFive ==
    [][\A c \in AuthCallers :
         (apc[c] = "idle" /\ apc'[c] = "awaiting") =>
             (~TokenCached \/ Remaining < 5)]_vars

\* C15 amended: a call of authenticate() posts a token request only when no
\* token is cached or at most 5 minutes of validity remain; otherwise it returns
\* the cached token at once, posting nothing and leaving token and expiry as
\* they were.
C15_ContactOnlyAtMostFive ==
    [][\A c \in AuthCallers :
         /\ (apc[c] = "idle" /\ apc'[c] = "awaiting") =>
               (~TokenCached \/ Remaining <= 5)
         /\ (apc[c] = "idle" /\ TokenCached /\ Remaining > 5 /\ apc'[c] # "idle") =>
               /\ apc'[c] = "returned"
               /\ aret'[c] = AuthResult(access_token, FALSE)
               /\ access_token' = access_token
               /\ token_expires_at' = token_expires_at]_vars

\* One caller holds the cached token, returned without a request, while six
\* minutes of validity remain.
C15_Witness ==
    \E c \in AuthCallers :
        /\ apc[c] = "returned"
        /\ aret[c] = AuthResult(access_token, FALSE)
        /\ TokenCached
        /\ Remaining = 6

\* C16: at most one token request is in flight at any time.
C16_SingleRefresh ==
    Cardinality({c \in AuthCallers : apc[c] = "awaiting"}) <= 1

\* C17: the last_error of every committed row and of every object of a call
\* has at most 1000 characters, also when the text it was made from is longer.
C17_ErrorAtMostCap ==
    /\ \A i \in Invoices : db[i].last_error.len <= 1000
    /\ \A w \in Workers : \A i \in Range(batch[w]) : mem[w][i].last_error.len <= 1000

\* A remote error list longer than the cap has been committed, cut to the cap,
\* next to a short text committed whole.
C17_Witness ==
    /\ LongLen > 1000
    /\ \E i \in Invoices : db[i].status = FAILED /\ db[i].last_error = Msg(1000)
    /\ \E j \in Invoices : db[j].status = FAILED /\ db[j].last_error = Msg(ShortLen)

\* A required attribute (invoice number, seller name, VAT number) is None or
\* empty.
RequiredMissing(inv) ==
    \E f \in {inv.invoice_number, inv.store_name, inv.vat_number} :
        f.none \/ f.text = <<>>

\* C18: build_xml called on an invoice with a required attribute None or empty
\* raises and returns no document.
C18_MissingFieldRaises ==
    (bx.called /\ RequiredMissing(bx.inv)) => (bx.out.raised /\ bx.out.doc = <<>>)

\* The number of '<' and of '>' in the document: one of each per piece of markup,
\* and those among the characters written.
CountLt(doc) == Cardinality({j \in DOMAIN doc : doc[j].k # "char" \/ doc[j].n = "<"})
CountGt(doc) == Cardinality({j \in DOMAIN doc : doc[j].k # "char" \/ doc[j].n = ">"})

\* Every tag opened in doc[j..] on top of the open tags in stack is closed in
\* order; a '<' among the characters opens a tag that nothing closes.
RECURSIVE TagsClosed(_, _, _)
TagsClosed(doc, j, stack) ==
    IF j > Len(doc) THEN stack = <<>>
    ELSE IF doc[j].k = "open" THEN TagsClosed(doc, j + 1, <<doc[j].n>> \o stack)
    ELSE IF doc[j].k = "close"
    THEN stack # <<>> /\ Head(stack) = doc[j].n /\ TagsClosed(doc, j + 1, Tail(stack))
    ELSE IF doc[j].k = "char" /\ doc[j].n = "<" THEN FALSE
    ELSE TagsClosed(doc, j + 1, stack)

\* C19: the document build_xml returns for an invoice with at least one item
\* has as many '<' as '>' and every tag opened in it is closed.
C19_WellFormed ==
    (bx.called /\ bx.inv.items >= 1 /\ ~bx.out.raised) =>
        /\ CountLt(bx.out.doc) = CountGt(bx.out.doc)
        /\ TagsClosed(bx.out.doc, 1, <<>>)

\* tax + sellerTax + netTotal - total, in mills.
SumOffMills ==
    10 * (tc.out.tax.c + tc.out.seller_tax.c + tc.out.net_total.c) - Rescale(tc.total, 3).c

\* Each of the three outputs has exactly two digits after the point.
TwoPlaces ==
    tc.out.tax.e = 2 /\ tc.out.seller_tax.e = 2 /\ tc.out.net_total.e = 2

\* C20 as stated: for every total >= 0 the outputs of tax_calc add up to the
\* total within one cent, and each has exactly 2 decimal places.
C20_SumWithinCent ==
    (tc.called /\ tc.total.c >= 0) => (Abs(SumOffMills) <= 10 /\ TwoPlaces)

\* The total is a whole number of cents.
WholeCents(d) == d.e <= 2 \/ d.c % Pow10(d.e - 2) = 0

\* C20 amended: for every total >= 0 that is a whole number of cents the outputs
\* of tax_calc add up to the total within one cent; for every total >= 0 each
\* output has exactly 2 decimal places.
C20_SumWithinCentOfCents ==
    (tc.called /\ tc.total.c >= 0) =>
        /\ TwoPlaces
        /\ WholeCents(tc.total) => Abs(SumOffMills) <= 10

\* tax_calc has been evaluated on a total in whole cents whose three outputs
\* add up to one cent more than the total.
C20_Witness ==
    /\ tc.called
    /\ tc.total.c > 0
    /\ WholeCents(tc.total)
    /\ SumOffMills = 10

\* r cents is the fraction n / d rounded to 2 decimals with round-half-up: r is
\* within half a cent of n / d, and on a tie it is the one farther from zero.
IsHalfUpCents(r, n, d) ==
    /\ 2 * Abs(100 * n - r * d) <= d
    /\ 2 * Abs(100 * n - r * d) = d => Abs(r) * d > 100 * Abs(n)

\* The reference values as fractions over the common denominator RefDen:
\* total*rate, (total*rate)*share and total - sellerTax - tax, unrounded.
RefDen == Pow10(tc.total.e + tc.ratio.e + tc.seller_ratio.e)
RefTax == tc.total.c * tc.ratio.c * Pow10(tc.seller_ratio.e)
RefSellerTax == tc.total.c * tc.ratio.c * tc.seller_ratio.c
RefNetTotal ==
    tc.total.c * Pow10(tc.ratio.e + tc.seller_ratio.e) - RefSellerTax - RefTax

\* C21: each output of tax_calc is the reference value (computed from the
\* unrounded values) rounded on its own to 2 decimals with round-half-up; and
\* tax_calc(100.00, 0.15, 0.15) is (15.00, 2.25, 82.75).
C21_EqualsReference ==
    /\ tc.called =>
          /\ TwoPlaces
          /\ IsHalfUpCents(tc.out.tax.c, RefTax, RefDen)
          /\ IsHalfUpCents(tc.out.seller_tax.c, RefSellerTax, RefDen)
          /\ IsHalfUpCents(tc.out.net_total.c, RefNetTotal, RefDen)
          /\ tc.total.c = 0 =>
                (tc.out.tax.c = 0 /\ tc.out.seller_tax.c = 0 /\ tc.out.net_total.c = 0)
    /\ tax_calc(Dec(10000, 2), Dec(15, 2), Dec(15, 2))
          = [tax |-> Dec(1500, 2), seller_tax |-> Dec(225, 2), net_total |-> Dec(8275, 2)]

\* tax_calc has been evaluated on 0.50 at rate 0.05: the tax 0.025 is a tie, and
\* came out as 0.03.
C21_Witness ==
    /\ tc.called
    /\ tc.total = Dec(50, 2)
    /\ tc.ratio = Dec(5, 2)
    /\ tc.out.tax = Dec(3, 2)

\* C22: the analysis of the payload made of five values of at most 255 bytes
\* each has exactly five fields, with tags 1..5 in order, each with the length
\* and the value it was made of.
C22_RoundTrip ==
    (tlv.analyzed /\ \A k \in 1..5 : Len(tlv.values[k]) <= 255) =>
        /\ Len(tlv.fields) = 5
        /\ \A k \in 1..5 :
              /\ tlv.fields[k].tag = k
              /\ tlv.fields[k].length = Len(tlv.values[k])
              /\ tlv.fields[k].value_preview = tlv.values[k]

\* C23: when one of the values has more than 255 bytes the encoding ends in an
\* error and no payload is returned.
C23_OverlongRaises ==
    (tlv.encoded /\ \E k \in 1..5 : Len(tlv.values[k]) > 255) =>
        (tlv.out.raised /\ b64decode(tlv.out.payload) = <<>>)

\* The encoding of five values has ended in an error; the last one has 256
\* bytes and the others are within the limit.
C23_Witness ==
    /\ tlv.encoded
    /\ tlv.out.raised
    /\ Len(tlv.values[5]) = 256
    /\ \A k \in 1..4 : Len(tlv.values[k]) <= 255

\* C24: the calls of generate_zatca_qr_data made with one invoice_data return
\* the same payload, whenever they are made.
C24_SamePayload ==
    \A a, b \in DOMAIN qr.calls : qr.calls[a].out = qr.calls[b].out

\* C25: a call of process_pending that awaits the remote authority goes on
\* whether or not an answer comes: it returns with every invoice of its batch
\* processed, and an invoice whose request timed out is Failed.
C25_HungCallBoundsBatch ==
    \A w \in SeqWorkers :
        /\ [](/\ last[w].t = "read_timeout"
              /\ pc[w] \in {"top", "commit", "returned"}
              => /\ mem[w][last[w].inv].status = FAILED
                 /\ pc[w] = "returned" => db[last[w].inv].status = FAILED)
        /\ (pc[w] = "call") ~>
               (pc[w] = "returned" /\ counts[w].processed = Len(batch[w]))

\* The request for the first invoice of a batch of two has timed out, the
\* invoice is Failed and the loop is at the second invoice.
C25_Witness ==
    /\ pc[1] = "top"
    /\ Len(batch[1]) = 2
    /\ idx[1] = 2
    /\ last[1] = Event(batch[1][1], "read_timeout", 0)
    /\ mem[1][batch[1][1]].status = FAILED

\* A call of process_pending is under way (the external reset is taken between
\* calls only).
InFlight == \E w \in Workers : pc[w] # "idle"

\* C26: no step of a process_pending call changes any column of an invoice
\* besides status, zatca_uuid, zatca_xml, zatca_xml_hash, submitted_at and
\* last_error.
C26_WritesOnlySix ==
    [][InFlight => cols' = cols]_vars

\* C26, amended: no step of a process_pending call changes any column of an
\* invoice besides the six and updated_at, and it changes updated_at of the
\* rows it updates only.
C26_WritesOnlySixAndStamp ==
    [][InFlight =>
        \A i \in Invoices :
            /\ \A c \in OtherColumns \ {"updated_at"} : cols'[i][c] = cols[i][c]
            /\ cols'[i] # cols[i] => \E w \in Workers : i \in Range(batch[w])]_vars

\* A call has returned with an invoice Done whose row still carries the
\* imported invoice number and items and a fresh updated_at.
C26_Witness ==
    /\ pc[1] = "returned"
    /\ \E i \in Range(batch[1]) :
          /\ db[i].status = DONE
          /\ cols[i]["invoice_number"] = Imported(i)["invoice_number"]
          /\ cols[i]["items"] = Imported(i)["items"]
          /\ cols[i]["updated_at"] # Imported(i)["updated_at"]

\* The invoices of call w's batch whose committed status is st.
Ended_As(w, st) == {i \in Range(batch[w]) : db[i].status = st}

\* C27: at the step by which a call of process_pending returns, every invoice it
\* selected is Done or Failed, processed = success + failed, success is the
\* number of selected invoices that are Done and failed the number that are
\* Failed.
C27_ReturnedCountsAgree ==
    [][\A w \in SeqWorkers :
        (pc[w] # "returned" /\ pc'[w] = "returned") =>
            /\ \A i \in Range(batch[w]) : db'[i].status \in {DONE, FAILED}
            /\ counts'[w].processed = counts'[w].success + counts'[w].failed
            /\ counts'[w].processed = Len(batch[w])
            /\ counts'[w].success = Cardinality(Ended_As(w, DONE)')
            /\ counts'[w].failed = Cardinality(Ended_As(w, FAILED)')]_vars

\* A call has returned from a batch of two in which one upload was accepted and
\* the last one could not connect.
C27_Witness ==
    /\ pc[1] = "returned"
    /\ Len(batch[1]) = 2
    /\ last[1].t = "connect_fail"
    /\ counts[1] = [processed |-> 2, success |-> 1, failed |-> 1]
    /\ db[batch[1][1]].status = DONE
    /\ db[batch[1][2]].status = FAILED

\* C28: every invoice whose committed status is Done has a zatca_uuid that is
\* neither NULL nor empty, and a submitted_at.
C28_DoneHasUuidAndTime ==
    \A i \in Invoices :
        db[i].status = DONE =>
            /\ db[i].zatca_uuid \notin {NoUuid, "empty", ""}
            /\ db[i].submitted_at

\* A live call has returned after a success answer without an identifier; the
\* invoice is Done with a locally generated identifier.
C28_Witness ==
    /\ pc[1] = "returned"
    /\ last[1].t = "answer"
    /\ IsSuccessCode(last[1].code)
    /\ db[last[1].inv].status = DONE
    /\ db[last[1].inv].zatca_uuid = "local"
    /\ db[last[1].inv].submitted_at

C30_PrerequisitesHeld ==
    [][LET c == net'.last IN
       /\ (c.op = "generate_production_csid" /\ c.sent) =>
              (bool(api.request_id) /\ api.request_id \in net.issued
                 /\ c.request_id = api.request_id)
       /\ (c.op = "clear_invoice" /\ c.sent) =>
              (bool(api.production_csid) /\ c.auth_cert = api.production_csid)
       /\ (c.op = "report_invoice" /\ c.sent) =>
              (/\ bool(api.compliance_csid) \/ bool(api.production_csid)
               /\ c.auth_cert \in {api.compliance_csid, api.production_csid}
               /\ bool(c.auth_cert))
       /\ ~c.sent => (~c.success /\ api' = api /\ net'.issued = net.issued)
       /\ api = FreshClient =>
              (~get_api_status(api).ready_for_reporting
                 /\ ~get_api_status(api).ready_for_clearance)]_vars

\* The client holds a compliance CSID and a request id and no production CSID;
\* its last call, a clear_invoice, returned without a request.
C30_Witness ==
    /\ net.last = Refused("clear_invoice")
    /\ bool(api.compliance_csid)
    /\ bool(api.request_id)
    /\ ~bool(api.production_csid)
    /\ get_api_status(api).ready_for_reporting
    /\ ~get_api_status(api).ready_for_clearance

====
